---------------------------- MODULE Spec2Model ----------------------------
(***************************************************************************)
(* A model of agent.py, the agent service of agent-adk-demo: the voiceRef  *)
(* matcher find_invoice_by_spoken_local and the request handlers           *)
(* agent_pay_invoice and agent_create_intent with the backend calls they   *)
(* issue through backend_get / backend_post.                               *)
(*                                                                         *)
(* Python strings are sequences of one-character strings, so that          *)
(* lower(), strip(), `in` and the two regular expressions are computed.    *)
(* An optional value is a tuple: <<>> for None, <<x>> for x.               *)
(***************************************************************************)
EXTENDS Integers, Sequences, FiniteSets, TLC

VARIABLES
    ref,            \* find_invoice_by_spoken_local: the argument ref (Opt of a string)
    invoices_list,  \* find_invoice_by_spoken_local: the argument invoices_list
    rpc,            \* position of the matcher call: "call" or "returned"
    found,          \* what the matcher call returned: [inv, line]
    pc,             \* per request: position of its handler
    kind,           \* per request: "pay" (POST /agent/pay) or "intent" (POST /agent/intent)
    body,           \* per request: request.json
    locals,         \* per request: the handler's local variables
    calls,          \* per request: the backend calls issued so far, in order
    replies,        \* per request: what each backend call returned, in order
    response        \* per request: the response returned to the caller (Opt)

mvars == <<ref, invoices_list, rpc, found>>
hvars == <<pc, kind, body, locals, calls, replies, response>>
vars == <<ref, invoices_list, rpc, found, pc, kind, body, locals, calls, replies, response>>

----------------------------------------------------------------------------
(* Optional values and Python truthiness *)

None == <<>>
Some(x) == <<x>>
Get(o) == o[1]

\* `not x` for a string, a list or None: all of them are the empty tuple here
Falsy(x) == x = <<>>

----------------------------------------------------------------------------
(* Python string operations *)

Whitespace == {" ", "\t"}
Digits == {"0", "1", "2", "3", "4", "5", "6", "7", "8", "9"}
UpperCase == <<"A","B","C","D","E","F","G","H","I","J","K","L","M",
               "N","O","P","Q","R","S","T","U","V","W","X","Y","Z">>
LowerCase == <<"a","b","c","d","e","f","g","h","i","j","k","l","m",
               "n","o","p","q","r","s","t","u","v","w","x","y","z">>

LowerChar(c) ==
    IF \E k \in 1..Len(UpperCase) : UpperCase[k] = c
    THEN LowerCase[CHOOSE k \in 1..Len(UpperCase) : UpperCase[k] = c]
    ELSE c

\* str.lower()
Lower(s) == [k \in 1..Len(s) |-> LowerChar(s[k])]

\* str.strip(): leading and trailing whitespace removed
Strip(s) ==
    LET keep == {k \in 1..Len(s) : s[k] \notin Whitespace}
    IN  IF keep = {} THEN <<>>
        ELSE LET lo == CHOOSE k \in keep : \A j \in keep : k <= j
                 hi == CHOOSE k \in keep : \A j \in keep : k >= j
             IN  SubSeq(s, lo, hi)

\* sub in s
Contains(sub, s) ==
    \E k \in 0..(Len(s) - Len(sub)) : SubSeq(s, k + 1, k + Len(sub)) = sub

\* the number of digits of s starting at position d
RECURSIVE DigitRun(_, _)
DigitRun(s, d) ==
    IF d <= Len(s) /\ s[d] \in Digits THEN 1 + DigitRun(s, d + 1) ELSE 0

Min(a, b) == IF a < b THEN a ELSE b

\* (\d{2,6}) tried at position d: the group, greedy, or None
DigitGroupAt(s, d) ==
    IF DigitRun(s, d) >= 2 THEN Some(SubSeq(s, d, d + Min(DigitRun(s, d), 6) - 1))
    ELSE None

\* inv[-\s]?(\d{2,6}) tried at position p: group 1, or None
InvPatternAt(s, p) ==
    IF p + 2 <= Len(s) /\ SubSeq(s, p, p + 2) = <<"i", "n", "v">>
    THEN IF p + 3 <= Len(s) /\ s[p + 3] \in ({"-"} \cup Whitespace)
         THEN DigitGroupAt(s, p + 4)
         ELSE DigitGroupAt(s, p + 3)
    ELSE None

\* re.search: the leftmost position where the pattern matches
SearchInvPattern(s) ==
    LET hits == {p \in 1..Len(s) : InvPatternAt(s, p) # None}
    IN  IF hits = {} THEN None
        ELSE InvPatternAt(s, CHOOSE p \in hits : \A q \in hits : p <= q)

SearchDigits(s) ==
    LET hits == {d \in 1..Len(s) : DigitGroupAt(s, d) # None}
    IN  IF hits = {} THEN None
        ELSE DigitGroupAt(s, CHOOSE d \in hits : \A q \in hits : d <= q)

\* str(n) for a non-negative integer
DigitChar(d) == <<"0", "1", "2", "3", "4", "5", "6", "7", "8", "9">>[d + 1]

RECURSIVE StrInt(_)
StrInt(n) == IF n < 10 THEN <<DigitChar(n)>> ELSE StrInt(n \div 10) \o <<DigitChar(n % 10)>>

\* str(inv.get('shortId')): the backend may send shortId as a string or a number
StrShortId(inv) ==
    IF inv.shortId.kind = "int" THEN StrInt(inv.shortId.n) ELSE inv.shortId.s

\* int() of a string of digits
RECURSIVE ParseNat(_)
ParseNat(s) ==
    IF s = <<>> THEN 0
    ELSE 10 * ParseNat(SubSeq(s, 1, Len(s) - 1))
         + (CHOOSE d \in 0..9 : DigitChar(d) = s[Len(s)])

\* datetime.fromisoformat of "YYYY-MM-DD", as a number that orders like the datetime
FromIsoFormat(s) ==
    ParseNat(SubSeq(s, 1, 4)) * 10000 + ParseNat(SubSeq(s, 6, 7)) * 100
    + ParseNat(SubSeq(s, 9, 10))

----------------------------------------------------------------------------
(* find_invoice_by_spoken_local *)

MinOf(S) == CHOOSE x \in S : \A y \in S : x <= y

\* line 71 without its second disjunct: shortId only
Tier1Matches_ShortIdOnly(inv, sid) == StrShortId(inv) = sid

\* line 71: the test of tier 1 on one invoice
Tier1Matches(inv, sid) ==
    \/ StrShortId(inv) = sid
    \/ (~Falsy(inv.invoiceId) /\ Contains(sid, inv.invoiceId))

\* line 79 with the test of line 71
Tier2Matches_AlsoInvoiceId(inv, sid) ==
    \/ StrShortId(inv) = sid
    \/ (~Falsy(inv.invoiceId) /\ Contains(sid, inv.invoiceId))

\* line 79: the test of tier 2 on one invoice
Tier2Matches(inv, sid) == StrShortId(inv) = sid

\* line 84: the test of tier 3 on one invoice
Tier3Matches(inv, s) ==
    \/ Contains(s, Lower(inv.vendor))
    \/ Contains(s, Lower(inv.label))
    \/ Contains(s, Lower(inv.description))

\* lines 67-72: the first invoice of the list that passes the test, when the
\* pattern is found in s
Tier1(s, list) ==
    LET m == SearchInvPattern(s)
        hits == {k \in 1..Len(list) : Tier1Matches(list[k], Get(m))}
    IN  IF m = None \/ hits = {} THEN None ELSE Some(list[MinOf(hits)])

\* lines 75-80
Tier2(s, list) ==
    LET m2 == SearchDigits(s)
        hits == {k \in 1..Len(list) : Tier2Matches(list[k], Get(m2))}
    IN  IF m2 = None \/ hits = {} THEN None ELSE Some(list[MinOf(hits)])

\* lines 83-85
Tier3(s, list) ==
    LET hits == {k \in 1..Len(list) : Tier3Matches(list[k], s)}
    IN  IF hits = {} THEN None ELSE Some(list[MinOf(hits)])

\* line 88: [i for i in invoices_list if not i.get('paid')]
RECURSIVE NotPaid(_)
NotPaid(list) ==
    IF list = <<>> THEN <<>>
    ELSE (IF list[1].paid THEN <<>> ELSE <<list[1]>>) \o NotPaid(Tail(list))

\* sorted() with a sort that is not stable: of equal keys the later one comes first
RECURSIVE SortedIdx_TiesReversed(_, _, _)
SortedIdx_TiesReversed(keys, n, reverse) ==
    IF n = 0 THEN <<>>
    ELSE LET done == SortedIdx_TiesReversed(keys, n - 1, reverse)
             stay == {k \in 1..Len(done) :
                        IF reverse THEN keys[done[k]] > keys[n]
                                   ELSE keys[done[k]] < keys[n]}
             at == Cardinality(stay)
         IN  SubSeq(done, 1, at) \o <<n>> \o SubSeq(done, at + 1, Len(done))

\* sorted(): the indices of keys in sorted order. Python's sort is stable, also
\* with reverse=True: elements with equal keys keep their original order.
RECURSIVE SortedIdx(_, _, _)
SortedIdx(keys, n, reverse) ==
    IF n = 0 THEN <<>>
    ELSE LET done == SortedIdx(keys, n - 1, reverse)
             stay == {k \in 1..Len(done) :
                        IF reverse THEN keys[done[k]] >= keys[n]
                                   ELSE keys[done[k]] <= keys[n]}
             at == Cardinality(stay)
         IN  SubSeq(done, 1, at) \o <<n>> \o SubSeq(done, at + 1, Len(done))

Sorted(list, keys, reverse) ==
    LET idx == SortedIdx(keys, Len(list), reverse)
    IN  [k \in 1..Len(list) |-> list[idx[k]]]

DueKeys(list) == [k \in 1..Len(list) |-> FromIsoFormat(list[k].dueDate)]
AmountKeys(list) == [k \in 1..Len(list) |-> list[k].amount]

K_last == <<"l", "a", "s", "t">>
K_latest == <<"l", "a", "t", "e", "s", "t">>
K_most_recent == <<"m", "o", "s", "t", " ", "r", "e", "c", "e", "n", "t">>
K_oldest == <<"o", "l", "d", "e", "s", "t">>
K_earliest == <<"e", "a", "r", "l", "i", "e", "s", "t">>
K_largest == <<"l", "a", "r", "g", "e", "s", "t">>
K_biggest == <<"b", "i", "g", "g", "e", "s", "t">>
K_highest == <<"h", "i", "g", "h", "e", "s", "t">>
K_smallest == <<"s", "m", "a", "l", "l", "e", "s", "t">>
K_small == <<"s", "m", "a", "l", "l">>

\* lines 88-100: the invoice returned and the line of the return statement
Tier4(s, list) ==
    LET not_paid == NotPaid(list)
    IN  IF not_paid = <<>> THEN [inv |-> None, line |-> 90]
        ELSE IF Contains(K_last, s) \/ Contains(K_latest, s) \/ Contains(K_most_recent, s)
        THEN [inv |-> Some(Sorted(not_paid, DueKeys(not_paid), TRUE)[1]), line |-> 92]
        ELSE IF Contains(K_oldest, s) \/ Contains(K_earliest, s)
        THEN [inv |-> Some(Sorted(not_paid, DueKeys(not_paid), FALSE)[1]), line |-> 94]
        ELSE IF Contains(K_largest, s) \/ Contains(K_biggest, s) \/ Contains(K_highest, s)
        THEN [inv |-> Some(Sorted(not_paid, AmountKeys(not_paid), TRUE)[1]), line |-> 96]
        ELSE IF Contains(K_smallest, s) \/ Contains(K_small, s)
        THEN [inv |-> Some(Sorted(not_paid, AmountKeys(not_paid), FALSE)[1]), line |-> 98]
        ELSE [inv |-> None, line |-> 100]

\* line 64
Normalize(r) == Strip(Lower(r))

\* the function with the blocks of lines 75-80 and 67-72 in the other order
find_invoice_by_spoken_local_DigitsFirst(r, list) ==
    IF r = None \/ Falsy(Get(r)) THEN [inv |-> None, line |-> 63]
    ELSE LET s == Normalize(Get(r))
         IN  IF Tier2(s, list) # None THEN [inv |-> Tier2(s, list), line |-> 80]
             ELSE IF Tier1(s, list) # None THEN [inv |-> Tier1(s, list), line |-> 72]
             ELSE IF Tier3(s, list) # None THEN [inv |-> Tier3(s, list), line |-> 85]
             ELSE Tier4(s, list)

\* The whole function: what it returns (inv: None or the invoice) and the line
\* of the return statement that returned it.
find_invoice_by_spoken_local(r, list) ==
    IF r = None \/ Falsy(Get(r)) THEN [inv |-> None, line |-> 63]
    ELSE LET s == Normalize(Get(r))
         IN  IF Tier1(s, list) # None THEN [inv |-> Tier1(s, list), line |-> 72]
             ELSE IF Tier2(s, list) # None THEN [inv |-> Tier2(s, list), line |-> 80]
             ELSE IF Tier3(s, list) # None THEN [inv |-> Tier3(s, list), line |-> 85]
             ELSE Tier4(s, list)

----------------------------------------------------------------------------
(* The inputs the model draws from *)

MaxCands == 3

W_inv == <<"i", "n", "v">>
W_125 == <<"1", "2", "5">>
W_99 == <<"9", "9">>
W_latest == <<"l", "a", "t", "e", "s", "t">>

ShortStr(s) == [kind |-> "str", s |-> s, n |-> 0]
ShortInt(n) == [kind |-> "int", s |-> <<>>, n |-> n]

\* shortId "125"
InvA ==
    [invoiceId |-> <<"a", "1", "2", "5">>, shortId |-> ShortStr(W_125),
     vendor |-> <<"A", "c", "m", "e">>, label |-> <<"r", "e", "n", "t">>,
     description |-> <<>>, amount |-> 50,
     dueDate |-> <<"2", "0", "2", "4", "-", "0", "3", "-", "0", "1">>, paid |-> FALSE]

\* shortId "7", an invoiceId that contains "125", a description that contains "inv-99"
InvB ==
    [invoiceId |-> <<"b", "1", "1", "2", "5">>, shortId |-> ShortStr(<<"7">>),
     vendor |-> <<"B", "o", "l", "t">>, label |-> <<>>,
     description |-> <<"r", "e", " ", "i", "n", "v", "-", "9", "9">>, amount |-> 50,
     dueDate |-> <<"2", "0", "2", "4", "-", "0", "3", "-", "0", "1">>, paid |-> FALSE]

\* shortId 99, sent as a number; paid
InvC ==
    [invoiceId |-> <<"c", "9", "9">>, shortId |-> ShortInt(99),
     vendor |-> <<"a", "c", "m", "e", " ", "l", "t", "d">>, label |-> <<>>,
     description |-> <<>>, amount |-> 10,
     dueDate |-> <<"2", "0", "2", "4", "-", "0", "1", "-", "1", "5">>, paid |-> TRUE]

\* shortId "099"
InvD ==
    [invoiceId |-> <<"d", "0", "9", "9">>, shortId |-> ShortStr(<<"0", "9", "9">>),
     vendor |-> <<>>, label |-> <<"l", "a", "t", "e", "s", "t", " ", "f", "e", "e">>,
     description |-> <<>>, amount |-> 30,
     dueDate |-> <<"2", "0", "2", "3", "-", "1", "2", "-", "3", "1">>, paid |-> FALSE]

\* paid, the largest amount and the latest due date, a label that holds "largest"
InvE ==
    [invoiceId |-> <<"e", "8">>, shortId |-> ShortStr(<<"8">>),
     vendor |-> <<>>, label |-> <<"L", "a", "r", "g", "e", "s", "t", " ", "o", "r", "d", "e", "r">>,
     description |-> <<>>, amount |-> 70,
     dueDate |-> <<"2", "0", "2", "4", "-", "0", "6", "-", "3", "0">>, paid |-> TRUE]

Pool == {InvA, InvB, InvC, InvD, InvE}

\* the candidate lists: every sequence of at most MaxCands invoices of the pool
CandidateLists == UNION {[1..n -> Pool] : n \in 0..MaxCands}

Tokens == {<<>>, W_inv, <<"-">>, <<" ">>, W_125, W_99, W_latest}

SpokenRefs ==
    {<<"p", "a", "y", " ", "9", "9">>,
     <<"p", "a", "y", " ", "0", "9", "9">>,
     <<"p", "a", "y", " ", "5">>,
     <<"I", "N", "V", "-", "1", "2", "5">>,
     <<"i", "n", "v", "o", "i", "c", "e", " ", "1", "2", "5">>,
     <<"i", "n", "v", "-", "1", "2", "3", "4", "5", "6", "7">>,
     <<"p", "a", "y", " ", "A", "C", "M", "E">>,
     <<"t", "h", "e", " ", "b", "i", "g", "g", "e", "s", "t", " ", "o", "n", "e">>,
     <<"l", "a", "r", "g", "e", "s", "t">>,
     <<"s", "m", "a", "l", "l">>,
     <<"o", "l", "d", "e", "s", "t">>,
     <<"s", "e", "c", "o", "n", "d", " ", "c", "h", "e", "a", "p", "e", "s", "t">>}

\* the references: None, the phrases above and every concatenation of three tokens
Refs ==
    {None} \cup {Some(r) : r \in SpokenRefs}
           \cup {Some(a \o b \o c) : a \in Tokens, b \in Tokens, c \in Tokens}

----------------------------------------------------------------------------
(* The matcher on its own: one call of find_invoice_by_spoken_local *)

NotReturned == [inv |-> None, line |-> 0]

Requests == {1, 2}

HandlerIdle ==
    /\ pc = [r \in Requests |-> "idle"]
    /\ kind = [r \in Requests |-> "pay"]
    /\ body = [r \in Requests |-> None]
    /\ locals = [r \in Requests |-> None]
    /\ calls = [r \in Requests |-> <<>>]
    /\ replies = [r \in Requests |-> <<>>]
    /\ response = [r \in Requests |-> None]

InitResolve ==
    /\ ref \in Refs
    /\ invoices_list \in CandidateLists
    /\ rpc = "call"
    /\ found = NotReturned
    /\ HandlerIdle

\* the call with `invoices_list.sort(key=lambda x: x['amount'])` in place of
\* sorted(not_paid, ...): the caller's list is reordered
Resolve_SortsInPlace ==
    /\ rpc = "call"
    /\ found' = find_invoice_by_spoken_local(ref, invoices_list)
    /\ rpc' = "returned"
    /\ invoices_list' = Sorted(invoices_list, AmountKeys(invoices_list), FALSE)
    /\ UNCHANGED ref
    /\ UNCHANGED hvars

Resolve ==
    /\ rpc = "call"
    /\ found' = find_invoice_by_spoken_local(ref, invoices_list)
    /\ rpc' = "returned"
    /\ UNCHANGED <<ref, invoices_list>>
    /\ UNCHANGED hvars

NextResolve == Resolve

SpecResolve == InitResolve /\ [][NextResolve]_vars

----------------------------------------------------------------------------
(* backend_get / backend_post: the calls and what they return *)

\* REQUEST_TIMEOUT, line 11: every call returns or raises within this many seconds
REQUEST_TIMEOUT == 8

NoAmount == None

\* a backend call: op names the endpoint, the other fields are the path
\* parameter (invoiceId of a lookup), the query (userId of the list call) or
\* the JSON payload (mandate and pay calls)
Call(op, method, path) ==
    [op |-> op, method |-> method, path |-> path, userId |-> "", invoiceId |-> None,
     type |-> "", amountLimit |-> NoAmount, mandateId |-> None, signedMandate |-> None,
     paymentMethod |-> ""]

\* line 175: backend_get('/api/invoices', params={'userId': user})
ListCall(user) == [Call("list", "GET", "/api/invoices") EXCEPT !.userId = user]

\* line 192: backend_get(f'/api/invoices/{invoiceId}')
LookupCall(invoiceId) ==
    [Call("lookup", "GET", "/api/invoices/{invoiceId}") EXCEPT !.invoiceId = Some(invoiceId)]

\* lines 200-208: backend_post('/api/mandates', cart_payload)
CartMandateCall(user, invoiceId, invoice) ==
    [Call("mandate", "POST", "/api/mandates") EXCEPT
        !.userId = user, !.type = "Cart", !.amountLimit = Some(invoice.amount),
        !.invoiceId = Some(invoiceId)]

\* lines 216-223: backend_post('/api/pay', pay_payload)
PayCall(mandateId, signedMandate, invoiceId) ==
    [Call("pay", "POST", "/api/pay") EXCEPT
        !.mandateId = mandateId, !.signedMandate = signedMandate,
        !.invoiceId = Some(invoiceId), !.paymentMethod = "agent-demo-card"]

\* line 241 and 246: amountLimit or 0
AmountOrZero(amountLimit) == IF amountLimit = None \/ Get(amountLimit) = 0 THEN 0 ELSE Get(amountLimit)

\* lines 246-248 without `or 0`: a missing amountLimit is sent as null
IntentMandateCall_NoDefault(user, amountLimit) ==
    [Call("mandate", "POST", "/api/mandates") EXCEPT
        !.userId = user, !.type = "Intent", !.amountLimit = amountLimit,
        !.invoiceId = None]

\* lines 246-248: backend_post('/api/mandates', payload) of the intent handler
IntentMandateCall(user, amountLimit) ==
    [Call("mandate", "POST", "/api/mandates") EXCEPT
        !.userId = user, !.type = "Intent", !.amountLimit = Some(AmountOrZero(amountLimit)),
        !.invoiceId = None]

\* What a call can do (lines 17-41): raise RuntimeError ("raised": connection
\* refused, timeout, non-2xx status), or return the parsed JSON. "malformed" is a
\* JSON value the handler's .get() chain raises on (not an object, or data: null).
NoMandateData == [mandateId |-> None, signedMandate |-> None]
NoReceipt == None

Reply(k) ==
    [kind |-> k, invoices |-> <<>>, invoice |-> None,
     data |-> None, mandateId |-> None, signedMandate |-> None, receipt |-> NoReceipt]

Failures == {Reply("raised"), Reply("malformed")}

MaxListed == 2

\* GET /api/invoices: { data: { invoices: [...] } }
ListReplies ==
    Failures \cup
    {[Reply("ok") EXCEPT !.invoices = l] : l \in UNION {[1..n -> Pool] : n \in 0..MaxListed}}

\* GET /api/invoices/{id}: { data: { invoice: {...} } }, or no invoice
LookupReplies ==
    Failures \cup {Reply("ok")} \cup {[Reply("ok") EXCEPT !.invoice = Some(i)] : i \in {InvA, InvC}}

\* POST /api/mandates: { data: { mandateId, signedMandate } }, the two fields at
\* the top level, or a response that lacks them
MandateReplies ==
    Failures \cup
    {[Reply("ok") EXCEPT !.data = Some([mandateId |-> Some("m1"), signedMandate |-> Some("sig1")])],
     [Reply("ok") EXCEPT !.data = Some([mandateId |-> Some("m1"), signedMandate |-> None])],
     [Reply("ok") EXCEPT !.mandateId = Some("m2"), !.signedMandate = Some("sig2")],
     Reply("ok")}

\* POST /api/pay: { data: { receipt: {...} } }, the receipt at the top level, or
\* a response without a receipt
PayReplies ==
    Failures \cup
    {[Reply("ok") EXCEPT !.data = Some([receipt |-> Some([receiptId |-> "rc1", amount |-> 50])])],
     [Reply("ok") EXCEPT !.data = Some([receipt |-> NoReceipt])],
     [Reply("ok") EXCEPT !.receipt = Some([receiptId |-> "rc2", amount |-> 50])],
     Reply("ok")}

IntentReplies == Failures \cup {Reply("ok")}

----------------------------------------------------------------------------
(* Responses of the agent: assistant_ok / assistant_err *)

\* lines 53-54: {"success": False, "message": msg}, code. msg is the fixed text
\* of the message; the text of the exception that follows it is left out.
assistant_err(msg, code) ==
    [success |-> FALSE, status |-> code, message |-> msg,
     invoiceId |-> None, cart |-> NoMandateData, receipt |-> NoReceipt]

\* lines 44-51: the success envelope; of data, speak and cards the invoice id,
\* the mandate and the receipt are kept
assistant_ok(msg, invoiceId, cart, receipt) ==
    [success |-> TRUE, status |-> 200, message |-> msg,
     invoiceId |-> invoiceId, cart |-> cart, receipt |-> receipt]

----------------------------------------------------------------------------
(* agent_pay_invoice and agent_create_intent, cut at their backend calls.  *)
(* Each piece runs from the return of one call to the next call or to the  *)
(* handler's return: it gives the locals, the call issued (Opt) and the    *)
(* response returned (Opt).                                                *)

\* the locals of a handler: user, invoiceId, voiceRef, invoice_list, invoice,
\* mandate_data
NoLocals ==
    [user |-> "", invoiceId |-> <<>>, voiceRef |-> <<>>, invoice_list |-> <<>>,
     invoice |-> None, mandate_data |-> NoMandateData]

Returns(l, resp) == [locals |-> l, call |-> None, response |-> Some(resp)]
Issues(l, c) == [locals |-> l, call |-> Some(c), response |-> None]

\* lines 165-175
PayStartStep(b) ==
    LET l == [NoLocals EXCEPT !.user = b.userId, !.invoiceId = b.invoiceId,
                              !.voiceRef = b.voiceRef]
    IN  IF b.userId = "" THEN Returns(l, assistant_err("userId required", 400))
        ELSE Issues(l, ListCall(l.user))

\* lines 181-192 with `if voiceRef:` at line 181
PayResolveStep_PrefersRef(l) ==
    LET useRef == ~Falsy(l.voiceRef)
        inv == find_invoice_by_spoken_local(Some(l.voiceRef), l.invoice_list).inv
        invoiceId == IF useRef /\ inv # None THEN Get(inv).invoiceId ELSE l.invoiceId
        l2 == [l EXCEPT !.invoiceId = invoiceId]
    IN  IF useRef /\ inv = None
        THEN Returns(l, assistant_err("I couldn't find an invoice matching that description", 404))
        ELSE IF Falsy(invoiceId)
        THEN Returns(l2, assistant_err("invoiceId or voiceRef required", 400))
        ELSE Issues(l2, LookupCall(invoiceId))

\* lines 181-192, once the list call has returned invoice_list
PayResolveStep(l) ==
    LET useRef == ~Falsy(l.voiceRef) /\ Falsy(l.invoiceId)
        inv == find_invoice_by_spoken_local(Some(l.voiceRef), l.invoice_list).inv
        invoiceId == IF useRef /\ inv # None THEN Get(inv).invoiceId ELSE l.invoiceId
        l2 == [l EXCEPT !.invoiceId = invoiceId]
    IN  IF useRef /\ inv = None
        THEN Returns(l, assistant_err("I couldn't find an invoice matching that description", 404))
        ELSE IF Falsy(invoiceId)
        THEN Returns(l2, assistant_err("invoiceId or voiceRef required", 400))
        ELSE Issues(l2, LookupCall(invoiceId))

\* lines 174-192
PayListStep(l, reply) ==
    IF reply.kind # "ok"
    THEN Returns(l, assistant_err("Could not fetch invoices", 502))
    ELSE PayResolveStep([l EXCEPT !.invoice_list = reply.invoices])

\* lines 191-208 with `pass` in the except branch of line 197
PayLookupStep_NoReturn(l, reply) ==
    IF reply.kind = "ok" /\ reply.invoice = None
    THEN Returns(l, assistant_err("Invoice not found", 404))
    ELSE LET l2 == [l EXCEPT !.invoice = IF reply.kind = "ok" THEN reply.invoice ELSE Some(InvA)]
         IN  Issues(l2, CartMandateCall(l.user, l.invoiceId, Get(l2.invoice)))

\* lines 191-208
PayLookupStep(l, reply) ==
    IF reply.kind # "ok"
    THEN Returns(l, assistant_err("Invoice lookup failed", 404))
    ELSE IF reply.invoice = None
    THEN Returns(l, assistant_err("Invoice not found", 404))
    ELSE LET l2 == [l EXCEPT !.invoice = reply.invoice]
         IN  Issues(l2, CartMandateCall(l.user, l.invoiceId, Get(reply.invoice)))

\* line 209: mandate_res.get('data') or mandate_res
MandateData(reply) ==
    IF reply.data # None THEN Get(reply.data)
    ELSE [mandateId |-> reply.mandateId, signedMandate |-> reply.signedMandate]

\* lines 207-223 with `pass` in the except branch of line 213
PayMandateStep_NoReturn(l, reply) ==
    LET l2 == [l EXCEPT !.mandate_data = IF reply.kind = "ok" THEN MandateData(reply)
                                         ELSE NoMandateData]
    IN  Issues(l2, PayCall(l2.mandate_data.mandateId, l2.mandate_data.signedMandate,
                           l.invoiceId))

\* lines 207-223
PayMandateStep(l, reply) ==
    IF reply.kind # "ok"
    THEN Returns(l, assistant_err("Failed to create cart mandate", 502))
    ELSE LET l2 == [l EXCEPT !.mandate_data = MandateData(reply)]
         IN  Issues(l2, PayCall(l2.mandate_data.mandateId, l2.mandate_data.signedMandate,
                                l.invoiceId))

\* lines 224-225: pay_data = pay_res.get('data') or pay_res; pay_data.get('receipt')
Receipt(reply) == IF reply.data # None THEN Get(reply.data).receipt ELSE reply.receipt

\* lines 222-230 with a second attempt of the payment call when it raises
PayPayStep_Retries(l, reply) ==
    IF reply.kind = "raised"
    THEN Issues(l, PayCall(l.mandate_data.mandateId, l.mandate_data.signedMandate, l.invoiceId))
    ELSE IF reply.kind # "ok" \/ Receipt(reply) = NoReceipt
    THEN Returns(l, assistant_err("Payment failed", 502))
    ELSE Returns(l, assistant_ok("Payment successful", Some(l.invoiceId), l.mandate_data,
                                 Receipt(reply)))

\* lines 222-230: receipt.get(...) raises on a missing receipt, inside the try
PayPayStep(l, reply) ==
    IF reply.kind # "ok" \/ Receipt(reply) = NoReceipt
    THEN Returns(l, assistant_err("Payment failed", 502))
    ELSE Returns(l, assistant_ok("Payment successful", Some(l.invoiceId), l.mandate_data,
                                 Receipt(reply)))

\* lines 238-248
IntentStartStep(b) ==
    LET l == [NoLocals EXCEPT !.user = b.userId]
    IN  IF b.userId = "" THEN Returns(l, assistant_err("userId required", 400))
        ELSE Issues(l, IntentMandateCall(l.user, b.amountLimit))

\* lines 247-251
IntentMandateStep(l, reply) ==
    IF reply.kind # "ok"
    THEN Returns(l, assistant_err("Failed to create intent", 502))
    ELSE Returns(l, assistant_ok("Intent created", None, NoMandateData, NoReceipt))

----------------------------------------------------------------------------
(* The handlers as a state machine: one request, from its arrival to its   *)
(* response. A request blocks in an await_* position while its backend     *)
(* call is in flight.                                                      *)

IdA == <<"a", "1", "2", "5">>

VoiceRefs ==
    {<<>>,
     <<"i", "n", "v", "-", "1", "2", "5">>,
     <<"p", "a", "y", " ", "9", "9">>,
     W_latest,
     <<" ", " ">>,
     <<"z", "z", "z">>}

\* request.json of POST /agent/pay; a missing key, null and "" take the same
\* branches of the handler (`not x`) and are the empty value here
PayBodies ==
    {[userId |-> u, invoiceId |-> i, voiceRef |-> v, action |-> None, amountLimit |-> NoAmount] :
        u \in {"", "u1"}, i \in {<<>>, IdA}, v \in VoiceRefs}

\* request.json of POST /agent/intent
IntentBodies ==
    {[userId |-> u, invoiceId |-> <<>>, voiceRef |-> <<>>, action |-> a, amountLimit |-> m] :
        u \in {"", "u1"}, a \in {None, Some("rent")}, m \in {NoAmount, Some(0), Some(50)}}

EmptyBody ==
    [userId |-> "", invoiceId |-> <<>>, voiceRef |-> <<>>, action |-> None,
     amountLimit |-> NoAmount]

MatcherIdle ==
    /\ ref = None
    /\ invoices_list = <<>>
    /\ rpc = "idle"
    /\ found = NotReturned

\* request 1 has arrived, at either endpoint, with any body
Init ==
    /\ MatcherIdle
    /\ \E k \in {"pay", "intent"} :
         /\ kind = [r \in Requests |-> IF r = 1 THEN k ELSE "pay"]
         /\ \E b \in (IF k = "pay" THEN PayBodies ELSE IntentBodies) :
              body = [r \in Requests |-> IF r = 1 THEN b ELSE EmptyBody]
    /\ pc = [r \in Requests |-> IF r = 1 THEN "received" ELSE "idle"]
    /\ locals = [r \in Requests |-> NoLocals]
    /\ calls = [r \in Requests |-> <<>>]
    /\ replies = [r \in Requests |-> <<>>]
    /\ response = [r \in Requests |-> None]

\* the handler's locals kept in one module-level variable that every request
\* thread writes
Run_SharedLocals(r, step, waiting) ==
    /\ locals' = [q \in Requests |-> step.locals]
    /\ calls' = [calls EXCEPT ![r] = IF step.call = None THEN @ ELSE Append(@, Get(step.call))]
    /\ response' = [response EXCEPT ![r] = step.response]
    /\ pc' = [pc EXCEPT ![r] = IF step.response = None THEN waiting ELSE "done"]
    /\ UNCHANGED <<kind, body>>
    /\ UNCHANGED mvars

\* the handler of request r runs one piece: it blocks in `waiting` on the call
\* the piece issued, or it is done with the response the piece returned
Run(r, step, waiting) ==
    /\ locals' = [locals EXCEPT ![r] = step.locals]
    /\ calls' = [calls EXCEPT ![r] = IF step.call = None THEN @ ELSE Append(@, Get(step.call))]
    /\ response' = [response EXCEPT ![r] = step.response]
    /\ pc' = [pc EXCEPT ![r] = IF step.response = None THEN waiting ELSE "done"]
    /\ UNCHANGED <<kind, body>>
    /\ UNCHANGED mvars

\* the call request r waits for returns or raises
Answer(r, reply) ==
    replies' = [replies EXCEPT ![r] = Append(@, [op |-> calls[r][Len(calls[r])].op,
                                                 kind |-> reply.kind])]

PayStart(r) ==
    /\ pc[r] = "received" /\ kind[r] = "pay"
    /\ Run(r, PayStartStep(body[r]), "await_list")
    /\ UNCHANGED replies

\* the list call of request r returns one of Rs
ListReturnsFrom(r, Rs) ==
    /\ pc[r] = "await_list"
    /\ \E reply \in Rs :
         /\ Answer(r, reply)
         /\ Run(r, PayListStep(locals[r], reply), "await_lookup")

LookupReturnsFrom(r, Rs) ==
    /\ pc[r] = "await_lookup"
    /\ \E reply \in Rs :
         /\ Answer(r, reply)
         /\ Run(r, PayLookupStep(locals[r], reply), "await_mandate")

MandateReturnsFrom(r, Rs) ==
    /\ pc[r] = "await_mandate"
    /\ \E reply \in Rs :
         /\ Answer(r, reply)
         /\ Run(r, PayMandateStep(locals[r], reply), "await_pay")

\* line 37 without timeout=REQUEST_TIMEOUT: the pay call may stay open forever
PayReturnsFrom_NoTimeout(r, Rs) ==
    /\ pc[r] = "await_pay"
    /\ \/ \E reply \in Rs :
            /\ Answer(r, reply)
            /\ Run(r, PayPayStep(locals[r], reply), "done")
       \/ /\ pc' = [pc EXCEPT ![r] = "hung"]
          /\ UNCHANGED <<kind, body, locals, calls, replies, response>>
          /\ UNCHANGED mvars

PayReturnsFrom(r, Rs) ==
    /\ pc[r] = "await_pay"
    /\ \E reply \in Rs :
         /\ Answer(r, reply)
         /\ Run(r, PayPayStep(locals[r], reply), "done")

ListReturns(r) == ListReturnsFrom(r, ListReplies)
LookupReturns(r) == LookupReturnsFrom(r, LookupReplies)
MandateReturns(r) == MandateReturnsFrom(r, MandateReplies)
PayReturns(r) == PayReturnsFrom(r, PayReplies)

IntentStart(r) ==
    /\ pc[r] = "received" /\ kind[r] = "intent"
    /\ Run(r, IntentStartStep(body[r]), "await_intent")
    /\ UNCHANGED replies

IntentReturns(r) ==
    /\ pc[r] = "await_intent"
    /\ \E reply \in IntentReplies :
         /\ Answer(r, reply)
         /\ Run(r, IntentMandateStep(locals[r], reply), "done")

Next ==
    \E r \in Requests :
        \/ PayStart(r)
        \/ ListReturns(r)
        \/ LookupReturns(r)
        \/ MandateReturns(r)
        \/ PayReturns(r)
        \/ IntentStart(r)
        \/ IntentReturns(r)

Spec == Init /\ [][Next]_vars

\* The same request under the assumption that its handler keeps running and
\* that every backend call returns or raises: requests.get / requests.post are
\* called with timeout=REQUEST_TIMEOUT (lines 24 and 37).
Handler(r) ==
    \/ PayStart(r)
    \/ ListReturns(r)
    \/ LookupReturns(r)
    \/ MandateReturns(r)
    \/ PayReturns(r)
    \/ IntentStart(r)
    \/ IntentReturns(r)

FairSpec == Init /\ [][Next]_vars /\ \A r \in Requests : WF_vars(Handler(r))

----------------------------------------------------------------------------
(* Two pay requests with the same body in flight at once. Flask serves each *)
(* request in its own thread; the handlers share no variable. The backend's *)
(* replies are drawn from smaller sets than above.                          *)

PairBodies ==
    {[EmptyBody EXCEPT !.userId = "u1", !.invoiceId = IdA],
     [EmptyBody EXCEPT !.userId = "u1", !.voiceRef = <<"i", "n", "v", "-", "1", "2", "5">>]}

PairListReplies == {Reply("raised"), [Reply("ok") EXCEPT !.invoices = <<InvB, InvA>>]}
PairLookupReplies == {Reply("raised"), Reply("ok"), [Reply("ok") EXCEPT !.invoice = Some(InvA)]}
PairMandateReplies ==
    {Reply("raised"),
     [Reply("ok") EXCEPT !.data = Some([mandateId |-> Some("m1"), signedMandate |-> Some("sig1")])],
     [Reply("ok") EXCEPT !.data = Some([mandateId |-> Some("m2"), signedMandate |-> Some("sig2")])]}
PairPayReplies ==
    {Reply("raised"),
     [Reply("ok") EXCEPT !.data = Some([receipt |-> Some([receiptId |-> "rc1", amount |-> 50])])]}

InitPair ==
    /\ MatcherIdle
    /\ kind = [r \in Requests |-> "pay"]
    /\ \E b \in PairBodies : body = [r \in Requests |-> b]
    /\ pc = [r \in Requests |-> "received"]
    /\ locals = [r \in Requests |-> NoLocals]
    /\ calls = [r \in Requests |-> <<>>]
    /\ replies = [r \in Requests |-> <<>>]
    /\ response = [r \in Requests |-> None]

NextPair ==
    \E r \in Requests :
        \/ PayStart(r)
        \/ ListReturnsFrom(r, PairListReplies)
        \/ LookupReturnsFrom(r, PairLookupReplies)
        \/ MandateReturnsFrom(r, PairMandateReplies)
        \/ PayReturnsFrom(r, PairPayReplies)

SpecPair == InitPair /\ [][NextPair]_vars

----------------------------------------------------------------------------
(* Properties of the matcher, checked under SpecResolve *)

Returned == rpc = "returned"

\* the normalized reference of the call (only used where ref is a string)
NormRef == Normalize(Get(ref))

\* the reference holds the explicit identifier pattern: "inv", an optional
\* '-' or whitespace, 2-6 digits
HasInvPattern == ref # None /\ SearchInvPattern(NormRef) # None
InvPatternDigits == Get(SearchInvPattern(NormRef))

\* positions of the candidates tier 1 looks for: shortId equal to the digits, or
\* a non-empty invoiceId that contains them
IdCandidates(sid) ==
    {k \in 1..Len(invoices_list) :
        \/ StrShortId(invoices_list[k]) = sid
        \/ (invoices_list[k].invoiceId # <<>> /\ Contains(sid, invoices_list[k].invoiceId))}

\* positions of the candidates whose shortId is string-equal to the digits
ShortIdCandidates(sid) ==
    {k \in 1..Len(invoices_list) : StrShortId(invoices_list[k]) = sid}

\* C8 as stated: for every non-empty candidate list, a reference that holds the
\* explicit identifier pattern is decided by tier 1 alone; the result is never
\* an invoice returned by the bare-numeric (line 80), text-containment (line 85)
\* or keyword tier (lines 92-98).
C8_NeverFallsThrough ==
    (Returned /\ invoices_list # <<>> /\ HasInvPattern)
        => found.line \notin {80, 85, 92, 94, 96, 98}

\* C8 amended: for every non-empty candidate list, a reference that holds the
\* explicit identifier pattern AND whose digits match at least one candidate
\* (shortId equal, or contained in the invoiceId) is decided by tier 1: the
\* result is the first such candidate in list order, returned at line 72.
C8_Tier1DecidesWhenCandidateMatches ==
    (Returned /\ HasInvPattern /\ IdCandidates(InvPatternDigits) # {})
        => /\ found.line = 72
           /\ found.inv = Some(invoices_list[MinOf(IdCandidates(InvPatternDigits))])

\* "99inv125" on [99, 125]: tier 1 returns the second candidate although the
\* first one is what the bare-numeric tier would pick
C8_Witness ==
    /\ Returned
    /\ ref = Some(W_99 \o W_inv \o W_125)
    /\ invoices_list = <<InvC, InvA>>
    /\ found = [inv |-> Some(InvA), line |-> 72]

Ref_inv_125 == Some(<<"i", "n", "v", "-", "1", "2", "5">>)

\* C9 as stated: for every candidate list that holds an invoice with shortId
\* "125", resolve("inv-125", list) returns an invoice with shortId "125",
\* whatever precedes it in the list.
C9_ReturnsShortId125 ==
    (Returned /\ ref = Ref_inv_125 /\ ShortIdCandidates(W_125) # {})
        => (found.inv # None /\ StrShortId(Get(found.inv)) = W_125)

\* C9 amended: for every candidate list that holds an invoice with shortId
\* "125", resolve("inv-125", list) returns the first candidate in list order
\* whose shortId is "125" or whose invoiceId contains "125"; this is the first
\* invoice with shortId "125" when no candidate before it has an invoiceId that
\* contains "125".
C9_ReturnsFirstIdCandidate ==
    (Returned /\ ref = Ref_inv_125 /\ ShortIdCandidates(W_125) # {})
        => /\ found.line = 72
           /\ found.inv = Some(invoices_list[MinOf(IdCandidates(W_125))])
           /\ (\A j \in 1..(MinOf(ShortIdCandidates(W_125)) - 1) :
                   ~Contains(W_125, invoices_list[j].invoiceId))
                => found.inv = Some(invoices_list[MinOf(ShortIdCandidates(W_125))])

\* the shortId-125 invoice in third place, behind two that tier 1 does not match
C9_Witness ==
    /\ Returned
    /\ ref = Ref_inv_125
    /\ invoices_list = <<InvC, InvD, InvA>>
    /\ found.inv = Some(InvA)

\* the starts of the maximal runs of digits of s
RunStarts(s) == {d \in 1..Len(s) : s[d] \in Digits /\ (d = 1 \/ s[d - 1] \notin Digits)}
LongRunStarts(s) == {d \in RunStarts(s) : DigitRun(s, d) >= 2}

\* the reference holds no explicit identifier pattern, and its first run of two
\* or more digits has at most 6 digits
HasBareDigits ==
    /\ ref # None
    /\ ~HasInvPattern
    /\ LongRunStarts(NormRef) # {}
    /\ DigitRun(NormRef, MinOf(LongRunStarts(NormRef))) <= 6
BareDigits ==
    LET d == MinOf(LongRunStarts(NormRef))
    IN  SubSeq(NormRef, d, d + DigitRun(NormRef, d) - 1)

\* C10: for a reference with a bare run of 2-6 digits and no explicit "inv"
\* pattern, the bare-numeric tier (line 80) returns exactly when some candidate's
\* shortId is string-equal to the digits, and then it returns the first such
\* candidate in list order; it never returns a candidate with a differently
\* padded shortId or one that only has the digits inside its invoiceId.
C10_BareDigitsMatchShortIdOnly ==
    (Returned /\ HasBareDigits)
        => /\ (found.line = 80) = (ShortIdCandidates(BareDigits) # {})
           /\ ShortIdCandidates(BareDigits) # {}
                => found.inv = Some(invoices_list[MinOf(ShortIdCandidates(BareDigits))])
           /\ found.line = 80 => StrShortId(Get(found.inv)) = BareDigits

\* "pay 99" on ["099", 99]: the second candidate is returned
C10_Witness ==
    /\ Returned
    /\ ref = Some(<<"p", "a", "y", " ", "9", "9">>)
    /\ invoices_list = <<InvD, InvC>>
    /\ found = [inv |-> Some(InvC), line |-> 80]

----------------------------------------------------------------------------
(* Properties of the handlers, checked under Spec *)

Done(r) == pc[r] = "done" /\ response[r] # None
Failed(r, msg, code) == Done(r) /\ response[r] = Some(assistant_err(msg, code))
Succeeded(r) == Done(r) /\ Get(response[r]).success

\* the positions of request r's calls of endpoint op
CallsOf(r, op) == {k \in 1..Len(calls[r]) : calls[r][k].op = op}

\* the call at position k has returned, and how
Answered(r, k) == k <= Len(replies[r])
ReturnedOk(r, k) == Answered(r, k) /\ replies[r][k].kind = "ok"
CallFailed(r, k) == Answered(r, k) /\ replies[r][k].kind # "ok"

\* the three stages of a payment attempt
Stages == <<"lookup", "mandate", "pay">>

\* the calls of request r that belong to a stage, in the order issued
RECURSIVE StageCalls(_)
StageCalls(cs) ==
    IF cs = <<>> THEN <<>>
    ELSE (IF cs[1].op \in {"lookup", "mandate", "pay"} THEN <<cs[1].op>> ELSE <<>>)
         \o StageCalls(Tail(cs))

\* C1: in every run of the pay operation, if the mandate-creation call fails
\* (it raises, or returns a body the handler cannot read), no payment call is
\* issued in that run and the run ends in the failure of the mandate stage.
C1_MandateFailureHalts ==
    \A r \in Requests : \A k \in CallsOf(r, "mandate") :
        (kind[r] = "pay" /\ CallFailed(r, k))
            => /\ CallsOf(r, "pay") = {}
               /\ Failed(r, "Failed to create cart mandate", 502)

C1_Witness ==
    /\ Len(replies[1]) = 3
    /\ replies[1][3] = [op |-> "mandate", kind |-> "raised"]
    /\ Failed(1, "Failed to create cart mandate", 502)

\* C2: in every run of the pay operation the stage calls are issued in the order
\* lookup, mandate, pay, each at most once; a call is issued only after the call
\* before it returned successfully; a run that ends in success holds exactly one
\* call of each of the three stages.
C2_StagesInOrder ==
    \A r \in Requests :
        kind[r] = "pay" =>
            /\ \E n \in 0..3 : StageCalls(calls[r]) = SubSeq(Stages, 1, n)
            /\ \A k \in 2..Len(calls[r]) : ReturnedOk(r, k - 1)
            /\ Succeeded(r) => StageCalls(calls[r]) = Stages

C2_Witness ==
    /\ kind[1] = "pay"
    /\ Succeeded(1)
    /\ StageCalls(calls[1]) = Stages
    /\ \A k \in 1..Len(calls[1]) : ReturnedOk(1, k)

\* the invoice id a pay request is about: the invoiceId of its body, or, when
\* only a voiceRef is given, the invoiceId of the invoice the matcher returns on
\* the listed invoices
TargetId(r) ==
    IF body[r].invoiceId # <<>> THEN body[r].invoiceId
    ELSE Get(find_invoice_by_spoken_local(Some(body[r].voiceRef), locals[r].invoice_list).inv).invoiceId

\* C3: the pay operation returns success only when the lookup, the mandate
\* creation and the payment all returned successfully in that run, and the
\* lookup path, the mandate request and the payment request carry one and the
\* same invoice id: the invoiceId of the request, or the invoiceId of the invoice
\* the matcher returned when only a voiceRef was given.
C3_SuccessNeedsAllStagesSameInvoice ==
    \A r \in Requests :
        kind[r] = "pay" =>
            /\ Succeeded(r) =>
                   \A op \in {"lookup", "mandate", "pay"} :
                       \E k \in CallsOf(r, op) : ReturnedOk(r, k)
            /\ Succeeded(r) => Get(response[r]).invoiceId = Some(TargetId(r))
            /\ \A op \in {"lookup", "mandate", "pay"} : \A k \in CallsOf(r, op) :
                   calls[r][k].invoiceId = Some(TargetId(r))

\* a voiceRef beside an invoiceId: the payment is for the invoiceId, although the
\* matcher would have picked another invoice of the list
C3_Witness ==
    /\ kind[1] = "pay"
    /\ Succeeded(1)
    /\ body[1].invoiceId = IdA
    /\ body[1].voiceRef = <<"p", "a", "y", " ", "9", "9">>
    /\ locals[1].invoice_list = <<InvD, InvC>>
    /\ \A k \in 2..4 : calls[1][k].invoiceId = Some(IdA)

\* a required field of the request is missing
MissingField(r) ==
    \/ body[r].userId = ""
    \/ kind[r] = "pay" /\ body[r].invoiceId = <<>> /\ body[r].voiceRef = <<>>

\* C4: a pay request without userId or with neither invoiceId nor voiceRef, and
\* an intent request without userId, is rejected with a validation failure
\* (status 400) before any backend call is issued.
C4_ValidationBeforeAnyCall ==
    \A r \in Requests :
        (pc[r] # "idle" /\ MissingField(r))
            => /\ calls[r] = <<>>
               /\ Done(r) => Get(response[r]).status = 400

\* C5: a pay request that carries an invoiceId issues no backend call other than
\* lookup, mandate creation and payment execution, and its outcome depends on
\* these three calls only: it does not fail before the lookup call.
C5_OnlyThreeCallsWithInvoiceId ==
    \A r \in Requests :
        (kind[r] = "pay" /\ body[r].userId # "" /\ body[r].invoiceId # <<>>)
            => /\ \A k \in 1..Len(calls[r]) : calls[r][k].op \in {"lookup", "mandate", "pay"}
               /\ Done(r) => CallsOf(r, "lookup") # {}

\* C6: a pay request ends in not-found (status 404) only when the matcher found
\* no candidate or the lookup call returned successfully without an invoice; a
\* call that fails, at any stage, ends the request in a backend error (502).
C6_NotFoundOnlyWhenNothingFound ==
    \A r \in Requests :
        (kind[r] = "pay" /\ Done(r))
            => /\ Get(response[r]).status = 404
                   => /\ calls[r] # <<>>
                      /\ calls[r][Len(calls[r])].op \in {"list", "lookup"}
                      /\ ReturnedOk(r, Len(calls[r]))
               /\ (\E k \in 1..Len(calls[r]) : CallFailed(r, k))
                   => Get(response[r]).status = 502

\* the fixed text of the failure a handler returns for a failed call
StageMessage(k, op) ==
    IF k = "intent" THEN "Failed to create intent"
    ELSE IF op = "list" THEN "Could not fetch invoices"
    ELSE IF op = "lookup" THEN "Invoice lookup failed"
    ELSE IF op = "mandate" THEN "Failed to create cart mandate"
    ELSE "Payment failed"

\* C7: no retry and no compensation: once a backend call of a pay or intent
\* request has failed, the failed call is the last call of the request, and the
\* request has returned a failure whose message names the stage that failed.
C7_NoRetryNoCompensation ==
    \A r \in Requests : \A k \in 1..Len(calls[r]) :
        CallFailed(r, k)
            => /\ k = Len(calls[r])
               /\ Done(r)
               /\ ~Get(response[r]).success
               /\ Get(response[r]).message = StageMessage(kind[r], calls[r][k].op)

\* the payment call fails after the mandate was created: four calls, no fifth
C7_Witness ==
    /\ kind[1] = "pay"
    /\ Len(calls[1]) = 4
    /\ Len(replies[1]) = 4
    /\ ReturnedOk(1, 3)
    /\ replies[1][4] = [op |-> "pay", kind |-> "raised"]
    /\ Failed(1, "Payment failed", 502)

----------------------------------------------------------------------------
(* Properties of the keyword tier, checked under SpecResolve *)

Ref_largest == Some(<<"l", "a", "r", "g", "e", "s", "t">>)
Ref_small == Some(<<"s", "m", "a", "l", "l">>)
Ref_latest == Some(W_latest)
Ref_oldest == Some(<<"o", "l", "d", "e", "s", "t">>)

\* positions of the unpaid candidates
Unpaid == {k \in 1..Len(invoices_list) : ~invoices_list[k].paid}

\* positions of the candidates whose vendor, label or description holds the
\* normalized reference
TextCandidates ==
    {k \in 1..Len(invoices_list) :
        \/ Contains(NormRef, Lower(invoices_list[k].vendor))
        \/ Contains(NormRef, Lower(invoices_list[k].label))
        \/ Contains(NormRef, Lower(invoices_list[k].description))}

AmountAt(k) == invoices_list[k].amount
DueAt(k) == FromIsoFormat(invoices_list[k].dueDate)

\* the first unpaid candidate, in list order, among those with the extreme key
FirstMaxAmount == MinOf({k \in Unpaid : \A j \in Unpaid : AmountAt(j) <= AmountAt(k)})
FirstMinAmount == MinOf({k \in Unpaid : \A j \in Unpaid : AmountAt(j) >= AmountAt(k)})
FirstMaxDue == MinOf({k \in Unpaid : \A j \in Unpaid : DueAt(j) <= DueAt(k)})
FirstMinDue == MinOf({k \in Unpaid : \A j \in Unpaid : DueAt(j) >= DueAt(k)})

\* NoMatch when every candidate is paid, else the candidate at position k
IsKeywordResult(k) ==
    found.inv = IF Unpaid = {} THEN None ELSE Some(invoices_list[k])

\* C11 as stated: resolve("largest", candidates) returns NoMatch when all
\* candidates are paid, and otherwise the unpaid candidate with the maximum
\* amount, the first in list order among equals.
C11_LargestIsFirstMaxUnpaid ==
    (Returned /\ ref = Ref_largest) => IsKeywordResult(FirstMaxAmount)

\* C11 amended: when no candidate's vendor, label or description holds the
\* reference, resolve("largest", candidates) returns NoMatch when all candidates
\* are paid, and otherwise the unpaid candidate with the maximum amount, the
\* first in list order among equals; the same holds for "small" (minimum
\* amount), "latest" (maximum dueDate) and "oldest" (minimum dueDate).
C11_KeywordPicksFirstExtremeUnpaid ==
    (Returned /\ ref # None /\ TextCandidates = {})
        => /\ ref = Ref_largest => IsKeywordResult(FirstMaxAmount)
           /\ ref = Ref_small => IsKeywordResult(FirstMinAmount)
           /\ ref = Ref_latest => IsKeywordResult(FirstMaxDue)
           /\ ref = Ref_oldest => IsKeywordResult(FirstMinDue)

\* "largest" on [paid 10, unpaid 50, unpaid 50]: the second candidate
C11_Witness ==
    /\ Returned
    /\ ref = Ref_largest
    /\ invoices_list = <<InvC, InvB, InvA>>
    /\ found = [inv |-> Some(InvB), line |-> 96]

----------------------------------------------------------------------------
(* Properties of the intent handler, checked under Spec *)

\* C12: an intent request with a userId issues exactly one backend call, a
\* mandate creation with type "Intent", invoiceId null and amountLimit equal to
\* the value of the request, or 0 when the request has none; it issues no
\* invoice list, invoice lookup or payment call.
C12_IntentIsOneIntentMandate ==
    \A r \in Requests :
        (kind[r] = "intent" /\ body[r].userId # "" /\ pc[r] \in {"await_intent", "done"})
            => /\ Len(calls[r]) = 1
               /\ calls[r][1].op = "mandate"
               /\ calls[r][1].path = "/api/mandates"
               /\ calls[r][1].type = "Intent"
               /\ calls[r][1].invoiceId = None
               /\ calls[r][1].userId = body[r].userId
               /\ calls[r][1].amountLimit =
                      IF body[r].amountLimit = None THEN Some(0) ELSE body[r].amountLimit

\* an intent request without amountLimit has returned after its one call
C12_Witness ==
    /\ kind[1] = "intent"
    /\ body[1].amountLimit = None
    /\ Succeeded(1)
    /\ Len(calls[1]) = 1
    /\ calls[1][1].amountLimit = Some(0)

----------------------------------------------------------------------------
(* The matcher has no side effect, checked under SpecResolve *)

\* C13: resolve leaves its arguments as they are (the candidate list keeps its
\* elements and their order, also when the keyword tier sorts), and what it
\* returns is NoMatch or one of the elements of the candidate list.
C13_ResolveIsPure ==
    /\ [][invoices_list' = invoices_list /\ ref' = ref]_vars
    /\ [](Returned =>
            \/ found.inv = None
            \/ \E k \in 1..Len(invoices_list) : found.inv = Some(invoices_list[k]))

\* "small" on [50, 30]: the keyword tier sorted, the second candidate is
\* returned and the list is in its original order
C13_Witness ==
    /\ Returned
    /\ ref = Ref_small
    /\ invoices_list = <<InvA, InvD>>
    /\ found = [inv |-> Some(InvD), line |-> 98]

----------------------------------------------------------------------------
(* Properties of two concurrent pay requests, checked under SpecPair *)

\* what belongs to request r, now and after the step
Own(r) == <<pc[r], locals[r], calls[r], replies[r], response[r]>>
OwnNext(r) == <<pc'[r], locals'[r], calls'[r], replies'[r], response'[r]>>

\* request r runs the sequence of a lone request: list, lookup, mandate, pay,
\* each issued after the one before returned, all for r's own target and with
\* the mandate r itself received
RunsOwnSequence(r) ==
    /\ \E n \in 0..4 : [k \in 1..Len(calls[r]) |-> calls[r][k].op]
                          = SubSeq(<<"list", "lookup", "mandate", "pay">>, 1, n)
    /\ \A k \in 2..Len(calls[r]) : ReturnedOk(r, k - 1)
    /\ \A k \in 1..Len(calls[r]) :
          /\ calls[r][k].op \in {"list", "mandate"} => calls[r][k].userId = body[r].userId
          /\ calls[r][k].op \in {"lookup", "mandate", "pay"}
                => calls[r][k].invoiceId = Some(TargetId(r))
          /\ calls[r][k].op = "pay"
                => /\ calls[r][k].mandateId = locals[r].mandate_data.mandateId
                   /\ calls[r][k].signedMandate = locals[r].mandate_data.signedMandate

\* C14: requests are independent and not deduplicated. With two pay requests
\* of one body in flight, every step belongs to one request and leaves what
\* belongs to the other as it was, and each request runs its own
\* lookup -> mandate -> pay sequence whatever the other has done.
C14_RequestsIndependent ==
    /\ [][\A r \in Requests : \A q \in Requests \ {r} :
              OwnNext(r) # Own(r) => OwnNext(q) = Own(q)]_vars
    /\ [](\A r \in Requests : RunsOwnSequence(r))

\* two mandates created and two payment calls issued for one invoice, the two
\* requests holding different mandates
C14_Witness ==
    /\ body[1] = body[2] /\ body[1].invoiceId = IdA
    /\ \A r \in Requests :
          /\ Len(calls[r]) = 4 /\ Len(replies[r]) >= 3
          /\ calls[r][3].op = "mandate" /\ ReturnedOk(r, 3)
          /\ calls[r][4].op = "pay" /\ calls[r][4].invoiceId = Some(IdA)
    /\ calls[1][4].mandateId = Some("m1")
    /\ calls[2][4].mandateId = Some("m2")

----------------------------------------------------------------------------
(* Termination of a request, checked under FairSpec *)

\* C15: once started, every pay request eventually terminates with exactly
\* one result, given that every backend call returns or raises: it reaches
\* "done" with a response, the response never changes and no call follows it,
\* a success comes after the payment call returned, and a failure comes
\* with every call before the last one returned successfully.
C15_EveryPayRequestTerminates ==
    /\ \A r \in Requests : (kind[r] = "pay" /\ pc[r] # "idle") ~> Done(r)
    /\ [][\A r \in Requests :
              response[r] # None
                => response'[r] = response[r] /\ calls'[r] = calls[r] /\ pc'[r] = "done"]_vars
    /\ [](\A r \in Requests :
              (kind[r] = "pay" /\ pc[r] = "done")
                => /\ response[r] # None
                   /\ Len(replies[r]) = Len(calls[r])
                   /\ \A k \in 1..(Len(calls[r]) - 1) : ReturnedOk(r, k)
                   /\ Get(response[r]).success
                        => /\ Len(calls[r]) = 4
                           /\ calls[r][4].op = "pay"
                           /\ ReturnedOk(r, 4))

\* a pay request that ended at its lookup, the first stage that failed
C15_Witness ==
    /\ kind[1] = "pay"
    /\ Done(1)
    /\ Len(calls[1]) = 2
    /\ calls[1][2].op = "lookup"
    /\ CallFailed(1, 2)
    /\ ~Get(response[1]).success

----------------------------------------------------------------------------
(* Further properties of the matcher, checked under SpecResolve *)

Ref_invoice_125 == Some(<<"i", "n", "v", "o", "i", "c", "e", " ", "1", "2", "5">>)

\* C16: a reference of the form "invoice 125" is covered by the explicit
\* identifier tier like "inv-125": for every candidate list,
\* resolve("invoice 125", list) returns what resolve("inv-125", list) returns.
C16_InvoiceWordSameAsInv ==
    (Returned /\ ref = Ref_invoice_125)
        => found.inv = find_invoice_by_spoken_local(Ref_inv_125, invoices_list).inv

\* the reference is empty, or is empty once lowercased and stripped
EmptyWhenNormalized(r) == r = None \/ Normalize(Get(r)) = <<>>

\* C17: resolve returns NoMatch, for every candidate list, for every
\* reference that is empty or becomes empty after normalization.
C17_EmptyRefNoMatch ==
    (Returned /\ EmptyWhenNormalized(ref)) => found.inv = None

\* C17, the consequence for the handler (under Spec): a pay request whose
\* voiceRef is whitespace-only, with no invoiceId, issues no lookup, mandate
\* or payment call.
C17_WhitespaceRefNeverPays ==
    \A r \in Requests :
        (kind[r] = "pay" /\ body[r].invoiceId = <<>> /\ body[r].voiceRef # <<>>
            /\ Normalize(body[r].voiceRef) = <<>>)
            => \A k \in 1..Len(calls[r]) : calls[r][k].op = "list"

----------------------------------------------------------------------------
(* Further properties of the handlers, checked under Spec *)

\* C18: the pay operation never issues a mandate-creation or payment call for
\* an invoice whose paid flag is true, whether the invoice id was given
\* directly or obtained from the resolver.
C18_NeverPaysPaidInvoice ==
    \A r \in Requests :
        kind[r] = "pay" =>
            \A k \in 1..Len(calls[r]) :
                calls[r][k].op \in {"mandate", "pay"}
                    => /\ locals[r].invoice # None
                       /\ ~Get(locals[r].invoice).paid

\* C19: whenever POST /api/pay is issued, its mandateId and signedMandate are
\* the non-null values returned by that run's mandate-creation response; a
\* mandate response without mandateId or signedMandate leads to no payment call.
C19_PayCarriesMandateCredential ==
    \A r \in Requests :
        \A k \in 1..Len(calls[r]) :
            calls[r][k].op = "pay"
                => /\ calls[r][k].mandateId = locals[r].mandate_data.mandateId
                   /\ calls[r][k].signedMandate = locals[r].mandate_data.signedMandate
                   /\ calls[r][k].mandateId # None
                   /\ calls[r][k].signedMandate # None

\* C20: if the lookup, the mandate creation and the payment execution of a
\* pay request all return successful responses, the request returns success.
C20_AllCallsOkMeansSuccess ==
    \A r \in Requests :
        (kind[r] = "pay" /\ pc[r] = "done" /\ Len(calls[r]) = 4 /\ Len(replies[r]) = 4
            /\ \A k \in 1..4 : ReturnedOk(r, k))
            => Succeeded(r)

=========================================================================
